---- MODULE Spec2Model ----
(***************************************************************************)
(* Dining philosophers over MPI (lab1/src/main.rs).                        *)
(*                                                                         *)
(* `size` processes form a ring.  Each process runs the loop of main():    *)
(* THINKING (a bounded number of one-second ticks, each with one           *)
(* non-blocking probe), REQUESTING (blocking receives until both forks are *)
(* held), EATING, then the answers to the requests noted meanwhile.        *)
(* A message is one byte, ForkState::to_u8: MISSING (0) asks for a fork,   *)
(* CLEAN (1) hands one over.  The receiver tells the fork concerned from   *)
(* the sender's rank.  MPI delivers the messages of one sender to one      *)
(* receiver in the order sent; a standard-mode send of one byte is         *)
(* buffered, so send never blocks.                                         *)
(***************************************************************************)
EXTENDS Integers, Sequences, FiniteSets, TLC

\* Largest ring the protocol specifications explore.
MaxN == 3
\* Largest ring Philosopher::new is applied to in SpecNew.
MaxSize == 14
\* rand::rng().random_range(3..=5): the ticks of one thinking phase.
ThinkMin == 3
ThinkMax == 5
\* The values of a u8.
ByteMax == 255

VARIABLES
    size,            \* world.size()
    phil,            \* rank -> the Philosopher struct of that process
    pc,              \* rank -> where the process is in main()'s loop
    ticks,           \* rank -> iterations left of `for _ in 0..thinking_time`
    requested_fork,  \* rank -> the local requested_fork ("", "left", "right")
    received,        \* rank -> the local received ("", "left", "right")
    chan,            \* <<from, to>> -> the messages sent and not yet received
    owed,            \* history: rank -> side -> asked for while DIRTY, not yet given
    call,            \* the argument of a function applied on its own
    ret              \* its result, <<>> before the call

vars == <<size, phil, pc, ticks, requested_fork, received, chan, owed, call, ret>>

Sides == {"left", "right"}
Opp(side) == IF side = "left" THEN "right" ELSE "left"

-----------------------------------------------------------------------------
(* ForkState and its one-byte encoding *)

ForkStates == {"MISSING", "CLEAN", "DIRTY"}

to_u8(state) ==
    CASE state = "MISSING" -> 0
      [] state = "CLEAN"   -> 1
      [] state = "DIRTY"   -> 2

\* "PANIC" stands for panic!("Received undefined ForkState!").
from_u8(val) ==
    CASE val = 0 -> "MISSING"
      [] val = 1 -> "CLEAN"
      [] val = 2 -> "DIRTY"
      [] OTHER   -> "PANIC"

\* The byte main() sends for a message of a kind about the sender's fork on
\* a side: a request is ForkState::MISSING, a grant ForkState::CLEAN, and
\* the side is not part of the byte.
encode(kind, side) ==
    IF kind = "REQUEST" THEN to_u8("MISSING") ELSE to_u8("CLEAN")

\* What a receiver makes of a byte: the kind alone; "PANIC" for a byte that
\* from_u8 rejects, "NONE" for DIRTY, which is no message of the protocol.
decode(byte) ==
    CASE from_u8(byte) = "MISSING" -> "REQUEST"
      [] from_u8(byte) = "CLEAN"   -> "GRANT"
      [] from_u8(byte) = "DIRTY"   -> "NONE"
      [] OTHER                     -> "PANIC"

-----------------------------------------------------------------------------
(* Philosopher *)

\* A slip: the last rank is taken to be `size`, so none is recognised.
Philosopher_new_last_rank_off_by_one(sz, rank) ==
    IF rank = 0 THEN
        [left_fork |-> "DIRTY", right_fork |-> "DIRTY",
         left_fork_request |-> FALSE, right_fork_request |-> FALSE,
         left_neighbour |-> 1, right_neighbour |-> sz - 1]
    ELSE IF rank = sz THEN
        [left_fork |-> "MISSING", right_fork |-> "MISSING",
         left_fork_request |-> FALSE, right_fork_request |-> FALSE,
         left_neighbour |-> 0, right_neighbour |-> sz - 2]
    ELSE
        [left_fork |-> "DIRTY", right_fork |-> "MISSING",
         left_fork_request |-> FALSE, right_fork_request |-> FALSE,
         left_neighbour |-> rank + 1, right_neighbour |-> rank - 1]

\* A slip: rank 0 takes `size` for the rank of its right neighbour.
Philosopher_new_right_of_zero(sz, rank) ==
    IF rank = 0 THEN
        [left_fork |-> "DIRTY", right_fork |-> "DIRTY",
         left_fork_request |-> FALSE, right_fork_request |-> FALSE,
         left_neighbour |-> 1, right_neighbour |-> sz]
    ELSE IF rank = sz - 1 THEN
        [left_fork |-> "MISSING", right_fork |-> "MISSING",
         left_fork_request |-> FALSE, right_fork_request |-> FALSE,
         left_neighbour |-> 0, right_neighbour |-> sz - 2]
    ELSE
        [left_fork |-> "DIRTY", right_fork |-> "MISSING",
         left_fork_request |-> FALSE, right_fork_request |-> FALSE,
         left_neighbour |-> rank + 1, right_neighbour |-> rank - 1]

Philosopher_new(sz, rank) ==
    IF rank = 0 THEN
        [left_fork |-> "DIRTY", right_fork |-> "DIRTY",
         left_fork_request |-> FALSE, right_fork_request |-> FALSE,
         left_neighbour |-> 1, right_neighbour |-> sz - 1]
    ELSE IF rank = sz - 1 THEN
        [left_fork |-> "MISSING", right_fork |-> "MISSING",
         left_fork_request |-> FALSE, right_fork_request |-> FALSE,
         left_neighbour |-> 0, right_neighbour |-> sz - 2]
    ELSE
        [left_fork |-> "DIRTY", right_fork |-> "MISSING",
         left_fork_request |-> FALSE, right_fork_request |-> FALSE,
         left_neighbour |-> rank + 1, right_neighbour |-> rank - 1]

\* A slip: the forks are left as they were, so a fork that came CLEAN stays CLEAN.
eat_leaves_forks(ph) == ph
eat(ph) == [ph EXCEPT !.left_fork = "DIRTY", !.right_fork = "DIRTY"]

\* A slip: only the left fork is tested.
check_forks_missing_left_only(ph) ==
    ph.left_fork = "MISSING"

check_forks_missing(ph) ==
    ph.left_fork = "MISSING" \/ ph.right_fork = "MISSING"

-----------------------------------------------------------------------------
(* The message handling of main() *)

Fork(ph, side) == IF side = "left" THEN ph.left_fork ELSE ph.right_fork

\* A message to send: the destination rank, the byte, and the side of the
\* sender's fork it is about.  The side is not sent: it is kept beside the
\* byte so that properties can tell which fork a message was meant for.
Msg(to, state, side) == [to |-> to, byte |-> to_u8(state), side |-> side]

\* THINKING block, "RECEIVED FORK" (`if msg_type == ForkState::CLEAN`).
thinking_received_fork(ph, sender) ==
    IF sender = ph.left_neighbour /\ ph.left_fork = "MISSING" THEN
        [ph |-> [ph EXCEPT !.left_fork = "CLEAN"], panic |-> FALSE]
    ELSE IF sender = ph.right_neighbour THEN
        [ph |-> [ph EXCEPT !.right_fork = "CLEAN"], panic |-> FALSE]
    ELSE
        [ph |-> ph, panic |-> TRUE]

\* THINKING block, "RESPOND TO A REQUEST" (`if msg_type == ForkState::MISSING`).
thinking_respond(ph, sender) ==
    IF sender = ph.left_neighbour /\ ~ph.left_fork_request THEN
        IF ph.left_fork = "DIRTY" THEN
            [ph |-> [ph EXCEPT !.left_fork = "MISSING", !.left_fork_request = FALSE],
             out |-> <<Msg(sender, "CLEAN", "left")>>, panic |-> FALSE]
        ELSE
            [ph |-> [ph EXCEPT !.left_fork_request = TRUE],
             out |-> <<>>, panic |-> FALSE]
    ELSE IF sender = ph.right_neighbour THEN
        IF ph.right_fork = "DIRTY" THEN
            [ph |-> [ph EXCEPT !.right_fork = "MISSING", !.right_fork_request = FALSE],
             out |-> <<Msg(sender, "CLEAN", "right")>>, panic |-> FALSE]
        ELSE
            [ph |-> [ph EXCEPT !.right_fork_request = TRUE],
             out |-> <<>>, panic |-> FALSE]
    ELSE
        [ph |-> ph, out |-> <<>>, panic |-> TRUE]

\* THINKING block: what one received byte does.  The CLEAN test is an `if`
\* of its own, and the MISSING test that follows it has the panicking
\* `else`: a byte that is not MISSING ends in that else, CLEAN included.
thinking_message(ph, byte, sender) ==
    LET msg_type == from_u8(byte)
        got == IF msg_type = "CLEAN" THEN thinking_received_fork(ph, sender)
               ELSE [ph |-> ph, panic |-> FALSE]
    IN  IF msg_type = "PANIC" THEN [ph |-> ph, out |-> <<>>, panic |-> TRUE]
        ELSE IF got.panic THEN [ph |-> got.ph, out |-> <<>>, panic |-> TRUE]
        ELSE IF msg_type = "MISSING" THEN thinking_respond(got.ph, sender)
        ELSE [ph |-> got.ph, out |-> <<>>, panic |-> TRUE]

\* REQUESTING block, "RECEIVED FORK".
requesting_received_fork(ph, sender, rcv) ==
    IF sender = ph.left_neighbour /\ ph.left_fork = "MISSING" THEN
        [ph |-> [ph EXCEPT !.left_fork = "CLEAN"], received |-> "left", panic |-> FALSE]
    ELSE IF sender = ph.right_neighbour THEN
        [ph |-> [ph EXCEPT !.right_fork = "CLEAN"], received |-> "right", panic |-> FALSE]
    ELSE
        [ph |-> ph, received |-> rcv, panic |-> TRUE]

\* A slip: a fork is given whenever it is held, CLEAN or DIRTY.
requesting_respond_gives_held(ph, sender) ==
    IF sender = ph.left_neighbour /\ ~ph.left_fork_request THEN
        IF ph.left_fork # "MISSING" THEN
            [ph |-> [ph EXCEPT !.left_fork = "MISSING", !.left_fork_request = FALSE],
             out |-> <<Msg(sender, "CLEAN", "left")>>, panic |-> FALSE]
        ELSE
            [ph |-> [ph EXCEPT !.left_fork_request = TRUE],
             out |-> <<>>, panic |-> FALSE]
    ELSE IF sender = ph.right_neighbour THEN
        IF ph.right_fork # "MISSING" THEN
            [ph |-> [ph EXCEPT !.right_fork = "MISSING", !.right_fork_request = FALSE],
             out |-> <<Msg(sender, "CLEAN", "right")>>, panic |-> FALSE]
        ELSE
            [ph |-> [ph EXCEPT !.right_fork_request = TRUE],
             out |-> <<>>, panic |-> FALSE]
    ELSE
        [ph |-> ph, out |-> <<>>, panic |-> TRUE]

\* REQUESTING block, "RESPOND TO A REQUEST".
requesting_respond(ph, sender) ==
    IF sender = ph.left_neighbour /\ ~ph.left_fork_request THEN
        IF ph.left_fork = "DIRTY" THEN
            [ph |-> [ph EXCEPT !.left_fork = "MISSING", !.left_fork_request = FALSE],
             out |-> <<Msg(sender, "CLEAN", "left")>>, panic |-> FALSE]
        ELSE
            [ph |-> [ph EXCEPT !.left_fork_request = TRUE],
             out |-> <<>>, panic |-> FALSE]
    ELSE IF sender = ph.right_neighbour THEN
        IF ph.right_fork = "DIRTY" THEN
            [ph |-> [ph EXCEPT !.right_fork = "MISSING", !.right_fork_request = FALSE],
             out |-> <<Msg(sender, "CLEAN", "right")>>, panic |-> FALSE]
        ELSE
            [ph |-> [ph EXCEPT !.right_fork_request = TRUE],
             out |-> <<>>, panic |-> FALSE]
    ELSE
        [ph |-> ph, out |-> <<>>, panic |-> TRUE]

\* REQUESTING block: what one received byte does.  Here the MISSING test is
\* an `else if` without an else: a DIRTY byte is dropped.
requesting_message(ph, byte, sender, rcv) ==
    LET msg_type == from_u8(byte) IN
    IF msg_type = "PANIC" THEN
        [ph |-> ph, out |-> <<>>, received |-> rcv, panic |-> TRUE]
    ELSE IF msg_type = "CLEAN" THEN
        LET got == requesting_received_fork(ph, sender, rcv)
        IN  [ph |-> got.ph, out |-> <<>>, received |-> got.received, panic |-> got.panic]
    ELSE IF msg_type = "MISSING" THEN
        LET r == requesting_respond(ph, sender)
        IN  [ph |-> r.ph, out |-> r.out, received |-> rcv, panic |-> r.panic]
    ELSE
        [ph |-> ph, out |-> <<>>, received |-> rcv, panic |-> FALSE]

\* A slip: the right fork is asked for first.
request_of_right_first(ph) ==
    IF ph.right_fork = "MISSING" THEN
        [requested_fork |-> "right", out |-> <<Msg(ph.right_neighbour, "MISSING", "right")>>]
    ELSE IF ph.left_fork = "MISSING" THEN
        [requested_fork |-> "left", out |-> <<Msg(ph.left_neighbour, "MISSING", "left")>>]
    ELSE
        [requested_fork |-> "", out |-> <<>>]

\* The request of one pass of `while left_fork == MISSING || right_fork ==
\* MISSING`: the left fork first.
request_of(ph) ==
    IF ph.left_fork = "MISSING" THEN
        [requested_fork |-> "left", out |-> <<Msg(ph.left_neighbour, "MISSING", "left")>>]
    ELSE IF ph.right_fork = "MISSING" THEN
        [requested_fork |-> "right", out |-> <<Msg(ph.right_neighbour, "MISSING", "right")>>]
    ELSE
        [requested_fork |-> "", out |-> <<>>]

\* A slip: the left fork is sent and kept.
respond_after_eating_keeps_left(ph) ==
    LET l  == ph.left_fork_request
        p1 == IF l THEN [ph EXCEPT !.left_fork_request = FALSE] ELSE ph
        o1 == IF l THEN <<Msg(ph.left_neighbour, "CLEAN", "left")>> ELSE <<>>
        r  == p1.right_fork_request
        p2 == IF r THEN [p1 EXCEPT !.right_fork = "MISSING", !.right_fork_request = FALSE]
              ELSE p1
        o2 == IF r THEN <<Msg(ph.right_neighbour, "CLEAN", "right")>> ELSE <<>>
    IN  [ph |-> p2, out |-> o1 \o o2]

\* A slip: the left fork is sent and its flag is left set.
respond_after_eating_keeps_flag(ph) ==
    LET l  == ph.left_fork_request
        p1 == IF l THEN [ph EXCEPT !.left_fork = "MISSING"] ELSE ph
        o1 == IF l THEN <<Msg(ph.left_neighbour, "CLEAN", "left")>> ELSE <<>>
        r  == p1.right_fork_request
        p2 == IF r THEN [p1 EXCEPT !.right_fork = "MISSING", !.right_fork_request = FALSE]
              ELSE p1
        o2 == IF r THEN <<Msg(ph.right_neighbour, "CLEAN", "right")>> ELSE <<>>
    IN  [ph |-> p2, out |-> o1 \o o2]

\* "RESPOND TO REQUESTS" after eating: the flags alone decide.
respond_after_eating(ph) ==
    LET l  == ph.left_fork_request
        p1 == IF l THEN [ph EXCEPT !.left_fork = "MISSING", !.left_fork_request = FALSE]
              ELSE ph
        o1 == IF l THEN <<Msg(ph.left_neighbour, "CLEAN", "left")>> ELSE <<>>
        r  == p1.right_fork_request
        p2 == IF r THEN [p1 EXCEPT !.right_fork = "MISSING", !.right_fork_request = FALSE]
              ELSE p1
        o2 == IF r THEN <<Msg(ph.right_neighbour, "CLEAN", "right")>> ELSE <<>>
    IN  [ph |-> p2, out |-> o1 \o o2]

-----------------------------------------------------------------------------
(* The processes *)

Ranks == 0 .. size - 1
Links == {c \in Ranks \X Ranks : c[1] # c[2]}
Phases == {"thinking", "hungry", "waiting", "eating", "aborted"}

\* The channels after p took the first message of `from` (none when from = p)
\* and sent `out`.
Deliver(p, from, out) ==
    [c \in Links |->
        LET rest == IF c = <<from, p>> THEN Tail(chan[c]) ELSE chan[c]
            sent == SelectSeq(out, LAMBDA m : c = <<p, m.to>>)
        IN  rest \o [i \in 1 .. Len(sent) |-> [byte |-> sent[i].byte, side |-> sent[i].side]]]

\* History: a fork is owed by q from the moment a neighbour sends the request
\* for it while q holds it DIRTY until q sends it.  A request for the
\* sender's fork on a side is for the fork on the other side of the receiver
\* (rank i's left fork is rank i+1's right fork).
OwedAfter(p, out) ==
    [q \in Ranks |-> [s \in Sides |->
        IF q = p /\ \E i \in DOMAIN out :
               out[i].byte = to_u8("CLEAN") /\ out[i].side = s
        THEN FALSE
        ELSE IF \E i \in DOMAIN out :
               /\ out[i].to = q /\ out[i].byte = to_u8("MISSING")
               /\ Opp(out[i].side) = s /\ Fork(phil[q], s) = "DIRTY"
        THEN TRUE
        ELSE owed[q][s]]]

MainInit(n) ==
    /\ size = n
    /\ phil = [r \in 0 .. n - 1 |-> Philosopher_new(n, r)]
    /\ pc = [r \in 0 .. n - 1 |-> "thinking"]
    /\ ticks \in [0 .. n - 1 -> ThinkMin .. ThinkMax]
    /\ requested_fork = [r \in 0 .. n - 1 |-> ""]
    /\ received = [r \in 0 .. n - 1 |-> ""]
    /\ chan = [c \in {d \in (0 .. n - 1) \X (0 .. n - 1) : d[1] # d[2]} |-> <<>>]
    /\ owed = [r \in 0 .. n - 1 |-> [s \in Sides |-> FALSE]]

Init ==
    /\ \E n \in 2 .. MaxN : MainInit(n)
    /\ call = <<>>
    /\ ret = <<>>

\* One tick of the thinking loop in which immediate_probe finds nothing.
ThinkNoMessage(p) ==
    /\ pc[p] = "thinking"
    /\ ticks[p] > 0
    /\ ticks' = [ticks EXCEPT ![p] = @ - 1]
    /\ UNCHANGED <<size, phil, pc, requested_fork, received, chan, owed, call, ret>>

\* One tick of the thinking loop in which a message of `from` has arrived.
ThinkReceiveFrom(p, from) ==
    /\ pc[p] = "thinking"
    /\ ticks[p] > 0
    /\ from # p
    /\ chan[<<from, p>>] # <<>>
    /\ LET r == thinking_message(phil[p], Head(chan[<<from, p>>]).byte, from) IN
        /\ phil' = [phil EXCEPT ![p] = r.ph]
        /\ chan' = Deliver(p, from, r.out)
        /\ owed' = OwedAfter(p, r.out)
        /\ pc' = [pc EXCEPT ![p] = IF r.panic THEN "aborted" ELSE "thinking"]
        /\ ticks' = [ticks EXCEPT ![p] = IF r.panic THEN 0 ELSE @ - 1]
    /\ UNCHANGED <<size, requested_fork, received, call, ret>>

ThinkReceive(p) == \E from \in Ranks : ThinkReceiveFrom(p, from)

\* The thinking loop is over.
FinishThinking(p) ==
    /\ pc[p] = "thinking"
    /\ ticks[p] = 0
    /\ pc' = [pc EXCEPT ![p] = "hungry"]
    /\ UNCHANGED <<size, phil, ticks, requested_fork, received, chan, owed, call, ret>>

\* The while test of the requesting block holds: ask for one missing fork and
\* go to the blocking receive.
RequestFork(p) ==
    /\ pc[p] = "hungry"
    /\ check_forks_missing(phil[p])
    /\ LET r == request_of(phil[p]) IN
        /\ requested_fork' = [requested_fork EXCEPT ![p] = r.requested_fork]
        /\ chan' = Deliver(p, p, r.out)
        /\ owed' = OwedAfter(p, r.out)
    /\ received' = [received EXCEPT ![p] = ""]
    /\ pc' = [pc EXCEPT ![p] = "waiting"]
    /\ UNCHANGED <<size, phil, ticks, call, ret>>

\* The while test fails: the eating block starts.
StartEating(p) ==
    /\ pc[p] = "hungry"
    /\ ~check_forks_missing(phil[p])
    /\ pc' = [pc EXCEPT ![p] = "eating"]
    /\ UNCHANGED <<size, phil, ticks, requested_fork, received, chan, owed, call, ret>>

\* One blocking receive of the inner loop `while received != requested_fork`,
\* taking a message of `from`.
WaitReceiveFrom(p, from) ==
    /\ pc[p] = "waiting"
    /\ from # p
    /\ chan[<<from, p>>] # <<>>
    /\ LET r == requesting_message(phil[p], Head(chan[<<from, p>>]).byte,
                                   from, received[p])
           done == r.panic \/ r.received = requested_fork[p]
       IN
        /\ phil' = [phil EXCEPT ![p] = r.ph]
        /\ chan' = Deliver(p, from, r.out)
        /\ owed' = OwedAfter(p, r.out)
        /\ pc' = [pc EXCEPT ![p] = IF r.panic THEN "aborted"
                                   ELSE IF done THEN "hungry" ELSE "waiting"]
        /\ received' = [received EXCEPT ![p] = IF done THEN "" ELSE r.received]
        /\ requested_fork' = [requested_fork EXCEPT ![p] = IF done THEN "" ELSE @]
    /\ UNCHANGED <<size, ticks, call, ret>>

WaitReceive(p) == \E from \in Ranks : WaitReceiveFrom(p, from)

\* The end of the eating block, the answers to the noted requests, and the
\* draw of the next thinking time.
FinishEating(p) ==
    /\ pc[p] = "eating"
    /\ LET r == respond_after_eating(eat(phil[p])) IN
        /\ phil' = [phil EXCEPT ![p] = r.ph]
        /\ chan' = Deliver(p, p, r.out)
        /\ owed' = OwedAfter(p, r.out)
    /\ \E t \in ThinkMin .. ThinkMax : ticks' = [ticks EXCEPT ![p] = t]
    /\ pc' = [pc EXCEPT ![p] = "thinking"]
    /\ UNCHANGED <<size, requested_fork, received, call, ret>>

Step(p) ==
    \/ ThinkNoMessage(p)
    \/ ThinkReceive(p)
    \/ FinishThinking(p)
    \/ RequestFork(p)
    \/ StartEating(p)
    \/ WaitReceive(p)
    \/ FinishEating(p)

Next == \E p \in Ranks : Step(p)

Spec == Init /\ [][Next]_vars

TypeOK ==
    /\ size \in 2 .. MaxN
    /\ pc \in [Ranks -> Phases]
    /\ ticks \in [Ranks -> 0 .. ThinkMax]
    /\ \A p \in Ranks : /\ phil[p].left_fork \in ForkStates
                        /\ phil[p].right_fork \in ForkStates
    /\ \A c \in Links : Len(chan[c]) <= 4

-----------------------------------------------------------------------------
(* The protocol under the scheduling of the processes *)

StepOf(p) == p \in Ranks /\ Step(p)
ThinkReceiveOf(p, from) ==
    p \in Ranks /\ from \in Ranks /\ ThinkReceiveFrom(p, from)
WaitReceiveOf(p, from) ==
    p \in Ranks /\ from \in Ranks /\ WaitReceiveFrom(p, from)

\* Every process is a running program: it keeps taking its steps, and a
\* message that stays receivable by a process is received.
FairSpec ==
    /\ Spec
    /\ \A p \in 0 .. MaxN - 1 :
        /\ WF_vars(StepOf(p))
        /\ \A from \in 0 .. MaxN - 1 :
            /\ WF_vars(ThinkReceiveOf(p, from))
            /\ WF_vars(WaitReceiveOf(p, from))

-----------------------------------------------------------------------------
(* Properties of the protocol *)

Held(p, side) == Fork(phil[p], side) # "MISSING"
LeftOf(p) == (p + 1) % size
Hungry(p) == pc[p] \in {"hungry", "waiting"}
Grants(from, to, side) ==
    Cardinality({i \in DOMAIN chan[<<from, to>>] :
        /\ chan[<<from, to>>][i].byte = to_u8("CLEAN")
        /\ chan[<<from, to>>][i].side = side})

\* C1: the fork between rank i and rank (i+1) mod size, rank i's left fork and
\* its neighbour's right fork, is never held (CLEAN or DIRTY) on both sides.
C1_ForkMutualExclusion ==
    \A i \in Ranks : ~(Held(i, "left") /\ Held(LeftOf(i), "right"))

\* C2: whenever a process is hungry some process can take a step; the state
\* with every process in the blocking receive and no message in flight is
\* never reached.
C2_DeadlockFree ==
    /\ (\E p \in Ranks : Hungry(p)) => ENABLED Next
    /\ ~(/\ \A p \in Ranks : pc[p] = "waiting"
         /\ \A c \in Links : chan[c] = <<>>)

\* C3: under fair scheduling every process that becomes hungry eventually eats.
C3_HungryLeadsToEating ==
    \A p \in 0 .. MaxN - 1 :
        (p \in Ranks /\ Hungry(p)) ~> (p \in Ranks /\ pc[p] = "eating")

\* C4: no two ring-adjacent processes are in the eating block at the same time.
C4_NoAdjacentEating ==
    \A i \in Ranks : ~(pc[i] = "eating" /\ pc[LeftOf(i)] = "eating")

\* A process eats while a neighbour of it is hungry, in a ring of three.
C4_Witness ==
    /\ size = 3
    /\ \E i \in Ranks : pc[i] = "eating" /\ pc[LeftOf(i)] = "waiting"

\* C5: a process that was asked for a fork it held DIRTY when the request was
\* sent never completes an eating cycle (the eating block and the answers
\* after it) with that fork still not sent.
C5_StarvationBound ==
    [][\A q \in Ranks :
        (pc[q] = "eating" /\ pc'[q] # "eating")
            => \A s \in Sides : ~owed'[q][s]]_vars

\* C6: in a ring of two, a fork travels only as the answer to the request
\* for it, so a GRANT in flight that gives the sender's fork on one side
\* goes to a process waiting for its fork on the other side; and neither
\* fork is held on both sides.
C6_TwoProcessRing ==
    size = 2 =>
        /\ \A c \in Links : \A i \in DOMAIN chan[c] :
            chan[c][i].byte = to_u8("CLEAN") =>
                /\ pc[c[2]] = "waiting"
                /\ requested_fork[c[2]] = Opp(chan[c][i].side)
        /\ \A i \in Ranks : ~(Held(i, "left") /\ Held(LeftOf(i), "right"))

HeldSides(i) ==
    (IF Held(i, "left") THEN 1 ELSE 0) + (IF Held(LeftOf(i), "right") THEN 1 ELSE 0)
InFlight(i) ==
    Grants(i, LeftOf(i), "left") + Grants(LeftOf(i), i, "right")
\* C7: at every instant each fork is held (CLEAN or DIRTY) on exactly one of
\* its two sides; its two sides are never both MISSING and never both held.
C7_OwnershipTotal ==
    \A i \in Ranks : HeldSides(i) = 1

-----------------------------------------------------------------------------
(* Philosopher::new and the encoding, applied on their own *)

\* The processes stay as they start in a ring of two.
Parked ==
    /\ size = 2
    /\ phil = [r \in 0 .. 1 |-> Philosopher_new(2, r)]
    /\ pc = [r \in 0 .. 1 |-> "thinking"]
    /\ ticks = [r \in 0 .. 1 |-> ThinkMin]
    /\ requested_fork = [r \in 0 .. 1 |-> ""]
    /\ received = [r \in 0 .. 1 |-> ""]
    /\ chan = [c \in {<<0, 1>>, <<1, 0>>} |-> <<>>]
    /\ owed = [r \in 0 .. 1 |-> [s \in Sides |-> FALSE]]

NewInit ==
    /\ Parked
    /\ call \in {[op |-> "new", n |-> n, rank |-> r] :
                    n \in 2 .. MaxSize, r \in 0 .. MaxSize - 1}
    /\ call.rank < call.n
    /\ ret = <<>>

NewCall ==
    /\ call.op = "new"
    /\ ret = <<>>
    /\ ret' = <<Philosopher_new(call.n, call.rank)>>
    /\ UNCHANGED <<size, phil, pc, ticks, requested_fork, received, chan, owed, call>>

SpecNew == NewInit /\ [][NewCall]_vars

Kinds == {"REQUEST", "GRANT"}

CodecInit ==
    /\ Parked
    /\ call \in {[op |-> "codec", kind |-> k, side |-> s, byte |-> b] :
                    k \in Kinds, s \in Sides, b \in 0 .. ByteMax}
    /\ ret = <<>>

CodecCall ==
    /\ call.op = "codec"
    /\ ret = <<>>
    /\ ret' = <<[enc |-> encode(call.kind, call.side), dec |-> decode(call.byte)]>>
    /\ UNCHANGED <<size, phil, pc, ticks, requested_fork, received, chan, owed, call>>

SpecCodec == CodecInit /\ [][CodecCall]_vars

\* The fork a Philosopher shares with the neighbour of rank nb.
ForkToward(ph, nb) ==
    IF ph.left_neighbour = nb THEN ph.left_fork ELSE ph.right_fork

IsMiddle == 0 < call.rank /\ call.rank < call.n - 1

NewEnds(ph) ==
    /\ ~ph.left_fork_request /\ ~ph.right_fork_request
    /\ call.rank = 0 => ph.left_fork = "DIRTY" /\ ph.right_fork = "DIRTY"
    /\ call.rank = call.n - 1 =>
           ph.left_fork = "MISSING" /\ ph.right_fork = "MISSING"

\* C8 as stated: rank 0 starts with both forks DIRTY, the last rank with both
\* MISSING, every other rank with the fork it shares with rank - 1 DIRTY and
\* the other fork MISSING; no request is noted.
C8_InitialAssignment ==
    ret # <<>> =>
        /\ NewEnds(ret[1])
        /\ IsMiddle => /\ ForkToward(ret[1], call.rank - 1) = "DIRTY"
                       /\ ForkToward(ret[1], call.rank + 1) = "MISSING"

\* C8 as amended: every other rank starts with the fork it shares with
\* rank + 1, its left fork, DIRTY and the fork it shares with rank - 1, its
\* right fork, MISSING.
C8_InitialAssignmentHigherSide ==
    ret # <<>> =>
        /\ NewEnds(ret[1])
        /\ IsMiddle => /\ ForkToward(ret[1], call.rank + 1) = "DIRTY"
                       /\ ForkToward(ret[1], call.rank - 1) = "MISSING"
                       /\ ret[1].left_fork = "DIRTY"
                       /\ ret[1].right_fork = "MISSING"

\* Philosopher::new has been applied to a rank that is neither first nor last.
C8_Witness ==
    ret # <<>> /\ call.n = 5 /\ call.rank = 2

\* C9: left_neighbour = (rank + 1) mod N and right_neighbour = (rank - 1 + N)
\* mod N; a's left neighbour is b exactly when b's right neighbour is a; in a
\* ring of two the two neighbours are the same rank.
C9_RingTopology ==
    ret # <<>> =>
        /\ ret[1].left_neighbour = (call.rank + 1) % call.n
        /\ ret[1].right_neighbour = (call.rank - 1 + call.n) % call.n
        /\ \A b \in 0 .. call.n - 1 :
            (ret[1].left_neighbour = b)
                <=> (Philosopher_new(call.n, b).right_neighbour = call.rank)
        /\ call.n = 2 => ret[1].left_neighbour = ret[1].right_neighbour

\* Philosopher::new has been applied to the last rank of a ring of four,
\* whose left neighbour wraps around to rank 0.
C9_Witness ==
    ret # <<>> /\ call.n = 4 /\ call.rank = 3

\* C10: the four (kind, side) pairs are encoded as four different bytes from
\* which the pair is got back, the bytes 0..3 are the valid ones, and every
\* byte of 4..255 is rejected.
C10_CodecBijection ==
    ret # <<>> =>
        /\ decode(ret[1].enc) = call.kind
        /\ \A k \in Kinds, s \in Sides :
            encode(k, s) = ret[1].enc => k = call.kind /\ s = call.side
        /\ call.byte \in 0 .. 3 => ret[1].dec \in Kinds
        /\ call.byte \in 4 .. ByteMax => ret[1].dec = "PANIC"

-----------------------------------------------------------------------------
(* The message handling of the two blocks, applied on its own *)

\* The struct of a process of a ring of n with any forks and flags.
LocalStates(n, rank) ==
    {[Philosopher_new(n, rank) EXCEPT !.left_fork = l, !.right_fork = r,
                                      !.left_fork_request = lq,
                                      !.right_fork_request = rq] :
        l \in ForkStates, r \in ForkStates, lq \in BOOLEAN, rq \in BOOLEAN}

MessageInit ==
    /\ Parked
    /\ \E n \in 2 .. MaxN : \E rank \in 0 .. n - 1 :
        \E sender \in (0 .. n - 1) \ {rank} :
            call \in {[op |-> "message", ph |-> ph, byte |-> b, sender |-> sender] :
                        ph \in LocalStates(n, rank), b \in 0 .. ByteMax}
    /\ ret = <<>>

\* The same byte of the same sender handled by the thinking block and by the
\* requesting block.
MessageCall ==
    /\ call.op = "message"
    /\ ret = <<>>
    /\ ret' = <<[thinking   |-> thinking_message(call.ph, call.byte, call.sender),
                 requesting |-> requesting_message(call.ph, call.byte, call.sender, "")]>>
    /\ UNCHANGED <<size, phil, pc, ticks, requested_fork, received, chan, owed, call>>

SpecMessage == MessageInit /\ [][MessageCall]_vars

\* C11: a GRANT received in the thinking block is stored (the fork it is
\* for becomes CLEAN) and the process does not abort.
C11_GrantWhileThinkingStored ==
    (ret # <<>> /\ decode(call.byte) = "GRANT") =>
        /\ ~ret[1].thinking.panic
        /\ \/ ret[1].thinking.ph.left_fork = "CLEAN"
           \/ ret[1].thinking.ph.right_fork = "CLEAN"

\* C16: the thinking block and the requesting block make the same of every
\* message in every local state: the same forks and flags, the same messages
\* sent, the same outcome.
C16_SameHandling ==
    ret # <<>> =>
        /\ ret[1].thinking.ph = ret[1].requesting.ph
        /\ ret[1].thinking.out = ret[1].requesting.out
        /\ ret[1].thinking.panic = ret[1].requesting.panic

-----------------------------------------------------------------------------
(* Properties of the steps of the protocol *)

Flag(ph, side) ==
    IF side = "left" THEN ph.left_fork_request ELSE ph.right_fork_request
Neighbour(ph, side) ==
    IF side = "left" THEN ph.left_neighbour ELSE ph.right_neighbour

\* The messages p adds for q in a step.
NewMsgs(p, q) ==
    IF Len(chan'[<<p, q>>]) > Len(chan[<<p, q>>])
    THEN SubSeq(chan'[<<p, q>>], Len(chan[<<p, q>>]) + 1, Len(chan'[<<p, q>>]))
    ELSE <<>>
\* How many messages of a byte about p's fork on a side p sends to q in a step.
SentCount(p, q, state, side) ==
    Cardinality({i \in DOMAIN NewMsgs(p, q) :
        NewMsgs(p, q)[i] = [byte |-> to_u8(state), side |-> side]})
Sends(p, state, side) ==
    \E q \in Ranks \ {p} : \E i \in DOMAIN NewMsgs(p, q) :
        NewMsgs(p, q)[i] = [byte |-> to_u8(state), side |-> side]
SendsNothing(p) ==
    \A q \in Ranks \ {p} : NewMsgs(p, q) = <<>>
\* p takes, in a step, a message of a byte that q sent about q's fork on a side.
Takes(p, q, state, side) ==
    /\ chan[<<q, p>>] # <<>>
    /\ chan'[<<q, p>>] = Tail(chan[<<q, p>>])
    /\ Head(chan[<<q, p>>]) = [byte |-> to_u8(state), side |-> side]
\* The struct of p at the moment it sends in a step: the eating block ends
\* with eat() before the answers are sent.
AtSend(p) == IF pc[p] = "eating" THEN eat(phil[p]) ELSE phil[p]

\* C12: a fork is sent only while DIRTY, and sending it leaves it MISSING with
\* its flag cleared; a request for a fork that is CLEAN sends nothing, leaves
\* the fork CLEAN and sets the flag of that side; a CLEAN fork is never given.
C12_GiveRule ==
    [][\A p \in Ranks : \A s \in Sides :
        /\ (Fork(AtSend(p), s) = "CLEAN") => Fork(phil'[p], s) = "CLEAN"
        /\ chan' # chan =>
            /\ Sends(p, "CLEAN", s) =>
                /\ Fork(AtSend(p), s) = "DIRTY"
                /\ Fork(phil'[p], s) = "MISSING"
                /\ ~Flag(phil'[p], s)
            /\ (/\ Fork(phil[p], s) = "CLEAN"
                /\ \E q \in Ranks \ {p} : Takes(p, q, "MISSING", Opp(s))) =>
                /\ SendsNothing(p)
                /\ Fork(phil'[p], s) = "CLEAN"
                /\ Flag(phil'[p], s)
      ]_vars

\* A request found its fork CLEAN and was noted, in a ring of three.
C12_Witness ==
    /\ size = 3
    /\ \E p \in Ranks : \E s \in Sides :
        Fork(phil[p], s) = "CLEAN" /\ Flag(phil[p], s)

\* C13: at the end of eating, for each side with its flag set exactly one
\* GRANT goes to that side's neighbour, the fork becomes MISSING and the flag
\* is cleared; a side with its flag not set stays DIRTY and sends nothing;
\* thinking starts, at the start of the program too, with both flags false
\* and no fork CLEAN.
C13_DeferredServedAfterEating ==
    /\ \A p \in Ranks : \A s \in Sides :
        ~Flag(phil[p], s) /\ Fork(phil[p], s) # "CLEAN"
    /\ [][\A p \in Ranks :
            (pc[p] = "eating" /\ pc'[p] # "eating") =>
                /\ pc'[p] = "thinking"
                /\ \A s \in Sides :
                    /\ ~Flag(phil'[p], s)
                    /\ Fork(phil'[p], s) # "CLEAN"
                    /\ \A q \in Ranks \ {p} : SentCount(p, q, "MISSING", s) = 0
                    /\ IF Flag(phil[p], s)
                       THEN /\ Fork(phil'[p], s) = "MISSING"
                            /\ SentCount(p, Neighbour(phil[p], s), "CLEAN", s) = 1
                            /\ \A q \in Ranks \ {p, Neighbour(phil[p], s)} :
                                SentCount(p, q, "CLEAN", s) = 0
                       ELSE /\ Fork(phil'[p], s) = "DIRTY"
                            /\ \A q \in Ranks \ {p} : SentCount(p, q, "CLEAN", s) = 0
      ]_vars

\* A process is back in thinking having sent a noted fork after eating: the
\* GRANT is in flight and the fork MISSING, in a ring of three.  (A fork
\* given while thinking costs a tick, so with all ticks left it was given
\* at the end of eating.)
C13_Witness ==
    /\ size = 3
    /\ \E p \in Ranks :
        /\ pc[p] = "thinking" /\ ticks[p] = ThinkMax
        /\ Fork(phil[p], "left") = "MISSING"
        /\ Fork(phil[p], "right") = "DIRTY"
        /\ Grants(p, phil[p].left_neighbour, "left") = 1

\* C14 as stated: a process that has left the requesting block and eats has
\* both its forks CLEAN.  (Nothing is received in the eating block, so the
\* forks of an eating process are those it started to eat with.)
C14_EatsWithCleanForks ==
    \A p \in Ranks :
        pc[p] = "eating" =>
            phil[p].left_fork = "CLEAN" /\ phil[p].right_fork = "CLEAN"

\* C14 as amended: a process that eats holds both its forks, CLEAN or DIRTY;
\* neither is MISSING.
C14_EatsWithHeldForks ==
    \A p \in Ranks :
        pc[p] = "eating" =>
            phil[p].left_fork # "MISSING" /\ phil[p].right_fork # "MISSING"

\* A process of a ring of three eats with the fork it had to ask for CLEAN
\* and the fork it held all along DIRTY.
C14_Witness ==
    /\ size = 3
    /\ \E p \in Ranks :
        /\ pc[p] = "eating"
        /\ {phil[p].left_fork, phil[p].right_fork} = {"CLEAN", "DIRTY"}

\* The REQUESTs of p about its fork on a side that are still in a channel.
Requests(p, side) ==
    LET q == Neighbour(phil[p], side) IN
    Cardinality({i \in DOMAIN chan[<<p, q>>] :
        chan[<<p, q>>][i] = [byte |-> to_u8("MISSING"), side |-> side]})

\* C15: a process sends a REQUEST only at the head of the requesting block,
\* one at a time, for a fork that is MISSING, the left one if it is MISSING
\* and the right one only when the left is held; it then waits, and it leaves
\* the wait (to ask again or to eat) only in a step that takes a GRANT and
\* leaves the fork it asked for CLEAN.  A process that is not waiting has no
\* REQUEST in a channel, and one that is waiting has at most the one for the
\* fork it asked for.
C15_RequestDiscipline ==
    /\ [](\A p \in Ranks : \A s \in Sides :
            /\ Requests(p, s) <= 1
            /\ Requests(p, s) = 1 =>
                /\ pc[p] = "waiting"
                /\ requested_fork[p] = s
                /\ Requests(p, Opp(s)) = 0)
    /\ [][\A p \in Ranks :
            /\ \A s \in Sides : Sends(p, "MISSING", s) =>
                /\ pc[p] = "hungry" /\ pc'[p] = "waiting"
                /\ Fork(phil[p], s) = "MISSING"
                /\ s = "right" => Fork(phil[p], "left") # "MISSING"
                /\ requested_fork'[p] = s
                /\ Len(NewMsgs(p, Neighbour(phil[p], s))) = 1
                /\ \A q \in Ranks \ {p, Neighbour(phil[p], s)} : NewMsgs(p, q) = <<>>
            /\ (pc[p] = "waiting" /\ pc'[p] # "waiting") =>
                /\ pc'[p] = "hungry"
                /\ \E q \in Ranks \ {p} : \E t \in Sides : Takes(p, q, "CLEAN", t)
                /\ Fork(phil[p], requested_fork[p]) = "MISSING"
                /\ Fork(phil'[p], requested_fork[p]) = "CLEAN"
       ]_vars

\* A process of a ring of three holds its left fork and waits for the right
\* one: its REQUEST for the right fork is on its way.
C15_Witness ==
    /\ size = 3
    /\ \E p \in Ranks :
        /\ pc[p] = "waiting"
        /\ requested_fork[p] = "right"
        /\ phil[p].left_fork # "MISSING"
        /\ Requests(p, "right") = 1

\* C17: in every state of every process, a request flag that is set is the
\* flag of a fork the process holds: left_fork_request implies left_fork #
\* MISSING, and right_fork_request implies right_fork # MISSING.
C17_RequestNotedOnHeldFork ==
    \A p \in Ranks : \A s \in Sides :
        Flag(phil[p], s) => Fork(phil[p], s) # "MISSING"

\* The precedence edges: <<a, b>> when a has precedence over its neighbour b
\* on the fork they share.  For the fork between rank i (its left fork) and
\* rank LeftOf(i) (its right fork), the holder of the fork CLEAN and the
\* destination of its GRANT in flight have precedence, and the holder of the
\* fork DIRTY yields.
PrecEdges ==
    UNION {
        {e \in {<<i, LeftOf(i)>>} :
            \/ Fork(phil[i], "left") = "CLEAN"
            \/ Fork(phil[LeftOf(i)], "right") = "DIRTY"
            \/ Grants(LeftOf(i), i, "right") > 0}
        \cup
        {e \in {<<LeftOf(i), i>>} :
            \/ Fork(phil[LeftOf(i)], "right") = "CLEAN"
            \/ Fork(phil[i], "left") = "DIRTY"
            \/ Grants(i, LeftOf(i), "left") > 0}
        : i \in Ranks}
\* The paths of up to 2^k edges of R; 2^MaxN edges are more than a ring has.
RECURSIVE Paths(_, _)
Paths(R, k) ==
    IF k = 0 THEN R
    ELSE LET P == Paths(R, k - 1) IN
         P \cup {<<e[1], f[2]>> : <<e, f>> \in {x \in P \X P : x[1][2] = x[2][1]}}

\* C18: in a ring of three or more the precedence edges have no cycle, in the
\* initial state and in every reachable state: no process has precedence,
\* directly or through others, over itself.
C18_PrecedenceAcyclic ==
    size >= 3 => \A a \in Ranks : <<a, a>> \notin Paths(PrecEdges, MaxN)

\* In a ring of three, rank 2, which started with no fork, has eaten and has
\* given its left fork on: it yields on its right fork, which it holds DIRTY,
\* while rank 0 has precedence on the fork it was given back CLEAN.
C18_Witness ==
    /\ size = 3
    /\ Fork(phil[2], "right") = "DIRTY"
    /\ Fork(phil[0], "right") = "CLEAN"
    /\ PrecEdges = {<<0, 2>>, <<1, 2>>, <<0, 1>>} \/ PrecEdges = {<<0, 2>>, <<1, 2>>, <<1, 0>>}

\* C19: no process aborts.  No process is at a panic, and no message at the
\* head of a channel would take its receiver to one where the receiver stands:
\* every byte decodes, no GRANT waits for a process that is thinking (the
\* thinking block panics on it), and no REQUEST or GRANT fails both sender
\* tests.
C19_NoAbort ==
    \A p \in Ranks :
        /\ pc[p] # "aborted"
        /\ \A q \in Ranks \ {p} : \A i \in DOMAIN chan[<<q, p>>] :
            from_u8(chan[<<q, p>>][i].byte) # "PANIC"
        /\ \A q \in Ranks \ {p} : chan[<<q, p>>] # <<>> =>
            LET byte == Head(chan[<<q, p>>]).byte IN
            /\ pc[p] = "thinking" => ~thinking_message(phil[p], byte, q).panic
            /\ pc[p] = "waiting" =>
                ~requesting_message(phil[p], byte, q, received[p]).panic

\* In a ring of three, a process that waits for a fork has taken a request
\* and noted it, and a request waits at the head of a channel of a process
\* that is thinking.
C19_Witness ==
    /\ size = 3
    /\ \E p \in Ranks : pc[p] = "waiting" /\ Flag(phil[p], "left")
    /\ \E p \in Ranks : \E q \in Ranks \ {p} :
        /\ pc[p] = "thinking"
        /\ chan[<<q, p>>] # <<>>
        /\ Head(chan[<<q, p>>]).byte = to_u8("MISSING")

\* C20: in every reachable state, for every fork (rank i's left fork, which
\* is rank LeftOf(i)'s right fork), the sides that hold it plus the GRANTs
\* for it in flight between the two are exactly one, and every GRANT in
\* flight is for a fork that is MISSING at its receiver.  A GRANT of the
\* sender's fork on a side is for the receiver's fork on the other side.
C20_ForkConservation ==
    /\ \A i \in Ranks : HeldSides(i) + InFlight(i) = 1
    /\ \A c \in Links : \A k \in DOMAIN chan[c] :
        chan[c][k].byte = to_u8("CLEAN") =>
            Fork(phil[c[2]], Opp(chan[c][k].side)) = "MISSING"

====
